---- MODULE Spec2Model ----
(***************************************************************************)
(* Laser "handwriting" canvas effect.  Two scripts are modelled:           *)
(*   - src/app.js              the continuous-beam variant ("version 2"),  *)
(*   - src/unnamed/part_000    the reveal-sweep variant   ("version 1").   *)
(*                                                                         *)
(* Numbers.  JavaScript numbers are modelled by integers on fixed grids:   *)
(*   - a coordinate is counted in units of 1/Unit pixel, Unit = Q*JitterRes*)
(*     (sample pixels lie on multiples of Unit, the random jitter of a     *)
(*     sample on multiples of Q, so that lerp(a,b,k/Q) is exact);          *)
(*   - curT is counted in units of 1/Q point, so curT in [0,1) is 0..Q-1;  *)
(*   - version 2 time is counted in ticks of 1/(pointsPerSecond*Q) second, *)
(*     so that pointsPerSecond*dt is dt ticks of 1/Q point.                *)
(***************************************************************************)
EXTENDS Integers, Sequences, FiniteSets, TLC

(***************************************************************************)
(* Bounds of the model.                                                    *)
(***************************************************************************)
\* subdivisions of one point unit: curT takes the values k/Q
Q == 2
\* number of non-space characters of TEXT a build may produce (0..MaxLetters)
MaxLetters == 2
\* width in pixels of the sampling box of one character
BoxW == 4
\* CONFIG.tailLength (src/app.js:39 sets 60), scaled so that a letter of
\* BoxW sample points overflows the tail
tailLength == 2

(***************************************************************************)
(* Program constants.                                                      *)
(***************************************************************************)
\* jitter grid: rnd(-0.25,0.25) takes the values -1/4, 0, 1/4 pixel
JitterRes == 4
\* CONFIG.tailStepMin = 1.4 pixel, in tenths of a pixel
tailStepMin10 == 14
\* CONFIG.pointsPerSecond
pointsPerSecond == 2000
\* the frame's dt clamp, Math.min(0.05, ...), as 1/dtClampDiv second
dtClampDiv == 20

Unit == Q * JitterRes


Min(a, b) == IF a <= b THEN a ELSE b
Max(a, b) == IF a >= b THEN a ELSE b

(***************************************************************************)
(* State of src/app.js.                                                    *)
(***************************************************************************)
VARIABLES
  text,           \* TEXT without its blanks: per character the number of box
                  \* pixels its glyph lights
  w, h, dpr,      \* logical viewport size; dpr in halves (2 = 1.0, 4 = 2.0)
  canvas,         \* [width, height] of the visible canvas
  glow,           \* persistent buffer: [width, height, ink]; ink = the points stamped
  letters,        \* <<[points |-> <<point, ...>>], ...>>
  curL, curIdx, curT,
  tip,            \* <<>> is null, <<p>> is the point p
  tail,
  reads,          \* <<letter index, point index>> of every points[] read of the last advanceTip call
  shown,          \* what the last frame put on the visible canvas
  reduced,        \* the reduced-motion preference read at startup
  raf,            \* a frame callback is pending
  statics         \* number of static frames rendered

varsV2 == <<text, w, h, dpr, canvas, glow, letters, curL, curIdx, curT, tip, tail,
            reads, shown, reduced, raf, statics>>

(***************************************************************************)
(* State of src/unnamed/part_000.  Names the two scripts share carry a 1.  *)
(***************************************************************************)
VARIABLES
  defined1,       \* the let/const bindings of the script that are initialised
  listeners1,     \* the resize listeners registered, in order
  error1,         \* the exception that ended the last callback ("" for none)
  event1,         \* the last callback run: "load", "resize" or "step"
  motion1,        \* the reduced-motion preference of the environment
  w1, h1, dpr1,
  canvas1,        \* [width, height] of the visible canvas
  glow1,          \* glow buffer: [width, height, ink]; ink = the points stamped
  textPoints, revealCount,
  textBounds,     \* "null" or "object"
  completedAgo,   \* completedAt relative to last: -1 when completedAt is 0
                  \* (unset), otherwise last - completedAt in ticks
  shown1,         \* what the last frame put on the visible canvas
  raf1,           \* a step callback is pending
  statics1,       \* number of static frames rendered
  observedAgo,    \* history: ticks from the first of the latest unbroken run
                  \* of frames that saw the text complete to the last frame;
                  \* -1 when the last frame did not see it complete
  delta1          \* now - last as the last step found it (line 194), in ticks;
                  \* 0 before the first step

varsV1 == <<defined1, listeners1, error1, event1, motion1, w1, h1, dpr1, canvas1, glow1,
            textPoints, revealCount, textBounds, completedAgo, shown1, raf1, statics1,
            observedAgo, delta1>>

(***************************************************************************)
(* The Path Orderers on their own: a sampled point list and what an        *)
(* orderer makes of it.                                                    *)
(***************************************************************************)
VARIABLES
  orderer,        \* "chain" (src/app.js), "scanline" (part_000) or "none"
  given,          \* the points in sampling order
  traced,        \* the orderer's output
  applied         \* the orderer has run

varsOrder == <<orderer, given, traced, applied>>

\* what the model follows: "app.js", "part_000" or "orderers"
VARIABLE page

vars == <<page, varsV2, varsV1, varsOrder>>

(***************************************************************************)
(* Geometry helpers of src/app.js.                                         *)
(***************************************************************************)
Pt(px, py) == [x |-> px, y |-> py]

\* lerp(a,b,t) with t = k/Q; exact, because coordinates are multiples of Q
lerp(a, b, k) == a + ((b - a) * k) \div Q

\* squared distance, the d of the nearest-neighbour search
sqDist(a, b) == (a.x - b.x) * (a.x - b.x) + (a.y - b.y) * (a.y - b.y)

\* dist(a,b) >= CONFIG.tailStepMin, both sides squared and taken in
\* tenths of a coordinate unit
farEnough(a, b) == 100 * sqDist(a, b) >= (tailStepMin10 * Unit) * (tailStepMin10 * Unit)

(***************************************************************************)
(* Path Orderer of src/app.js: greedy nearest-neighbour chain.             *)
(***************************************************************************)
\* the start point: smallest y, then smallest x (0-based index into pts)
RECURSIVE pickStart(_, _, _)
pickStart(pts, i, start) ==
  IF i >= Len(pts) THEN start
  ELSE pickStart(pts, i + 1,
         IF \/ pts[i + 1].y < pts[start + 1].y
            \/ (pts[i + 1].y = pts[start + 1].y /\ pts[i + 1].x < pts[start + 1].x)
         THEN i ELSE start)

\* a scan that forgets which points are used
RECURSIVE nearestAny(_, _, _, _, _)
nearestAny(pts, used, cur, j, best) ==
  IF j >= Len(pts) THEN best
  ELSE nearestAny(pts, used, cur, j + 1,
         IF best = -1 \/ sqDist(pts[j + 1], pts[cur + 1]) < sqDist(pts[best + 1], pts[cur + 1])
         THEN j ELSE best)

\* the inner scan for j: the unused point nearest to pts[cur]; -1 when none.
\* bestD starts at 1e18, above every squared distance of two canvas points,
\* so the first unused point is always taken.
RECURSIVE nearest(_, _, _, _, _)
nearest(pts, used, cur, j, best) ==
  IF j >= Len(pts) THEN best
  ELSE nearest(pts, used, cur, j + 1,
         IF j \in used THEN best
         ELSE IF best = -1 \/ sqDist(pts[j + 1], pts[cur + 1]) < sqDist(pts[best + 1], pts[cur + 1])
              THEN j ELSE best)

\* the loop over k: extend the chain until pts.length points are placed
RECURSIVE chain(_, _, _, _, _)
chain(pts, used, cur, k, ordered) ==
  IF k >= Len(pts) THEN ordered
  ELSE LET best == nearest(pts, used, cur, 0, -1) IN
       IF best = -1 THEN ordered
       ELSE chain(pts, used \cup {best}, best, k + 1, Append(ordered, pts[best + 1]))

\* the ordering applied to one character's samples
orderLetter(pts) ==
  IF Len(pts) > 2
  THEN LET start == pickStart(pts, 1, 0)
       IN chain(pts, {start}, start, 1, <<pts[start + 1]>>)
  ELSE pts

(***************************************************************************)
(* Glyph Sampler of src/app.js.  What fillText and getImageData yield is   *)
(* the environment's: a glyph is the set of box pixels whose alpha exceeds *)
(* 12 (mask) and the jitter drawn for each of them (jit).                  *)
(***************************************************************************)
\* the straight run of the k leftmost box pixels, unjittered
run(k) == [mask |-> 0 .. k - 1, jit |-> [xx \in 0 .. k - 1 |-> <<0, 0>>]]

\* a run of three whose middle sample is jittered upwards by 1/JitterRes pixel
raised == [mask |-> 0 .. 2, jit |-> [xx \in 0 .. 2 |-> IF xx = 1 THEN <<0, 0 - 1>> ELSE <<0, 0>>]]

\* the rasters a character of k lit pixels can be sampled to: the jitter is
\* random; a run of three is met unjittered and with its middle sample raised
glyphsOf(k) == IF k = 3 THEN {run(k), raised} ELSE {run(k)}

\* the scan over the box row of character number li; the character's
\* origin x advances by the box width per character
RECURSIVE sample(_, _, _)
sample(li, g, xx) ==
  IF xx >= BoxW THEN <<>>
  ELSE LET here == IF xx \in g.mask
                   THEN <<Pt(((li * BoxW + xx) * JitterRes + g.jit[xx][1]) * Q,
                             g.jit[xx][2] * Q)>>
                   ELSE <<>>
       IN here \o sample(li, g, xx + 1)

\* letters as buildLetters leaves it: one entry per non-space character
buildLetters(glyphs) ==
  [i \in 1 .. Len(glyphs) |-> [points |-> orderLetter(sample(i - 1, glyphs[i], 0))]]

\* the texts of the model: up to MaxLetters characters of 0 .. BoxW lit pixels
Texts == UNION {[1 .. n -> 0 .. BoxW] : n \in 0 .. MaxLetters}

\* the rasters a build of the text txt can meet
RECURSIVE rastersOf(_)
rastersOf(txt) ==
  IF txt = <<>> THEN {<<>>}
  ELSE {<<g>> \o rest : g \in glyphsOf(Head(txt)), rest \in rastersOf(Tail(txt))}

(***************************************************************************)
(* Beam Animator of src/app.js.  A call works on the record                *)
(*   [curL, curIdx, curT, tip, tail, ink, reads]                           *)
(* and returns it as the call leaves it.                                   *)
(***************************************************************************)
\* points[i] of letter l (0-based); a read outside the array yields
\* undefined in JavaScript, here the point noPoint
noPoint == Pt(0 - 1, 0 - 1)
pointAt(l, i) ==
  IF l < Len(letters) /\ i < Len(letters[l + 1].points) /\ i >= 0
  THEN letters[l + 1].points[i + 1] ELSE noPoint

\* a letter counted as drawable from one point on
shortOne(l) == Len(letters[l + 1].points) < 1

\* !letters[l].points || letters[l].points.length < 2
short(l) == Len(letters[l + 1].points) < 2

\* a tail that never drops its oldest entry
pushTailNoShift(tl, p) ==
  IF Len(tl) = 0 THEN <<p>>
  ELSE IF farEnough(tl[Len(tl)], p) THEN Append(tl, p) ELSE tl

\* pushTail(p): the first entry always, later ones only tailStepMin away from
\* the newest; beyond tailLength entries the oldest is shifted out
pushTail(tl, p) ==
  IF Len(tl) = 0 THEN <<p>>
  ELSE IF farEnough(tl[Len(tl)], p)
       THEN LET pushed == Append(tl, p)
            IN IF Len(pushed) > tailLength THEN Tail(pushed) ELSE pushed
       ELSE tl

\* the first while: find the next drawable letter, resetting on every skip
RECURSIVE skipReset(_)
skipReset(s) ==
  IF s.curL < Len(letters) /\ short(s.curL)
  THEN skipReset([s EXCEPT !.curL = @ + 1, !.curIdx = 0, !.curT = 0,
                           !.tip = <<>>, !.tail = <<>>])
  ELSE s

\* the while inside "finish this letter": skip empties, curL only
RECURSIVE skipEmpties(_)
skipEmpties(s) ==
  IF s.curL < Len(letters) /\ short(s.curL)
  THEN skipEmpties([s EXCEPT !.curL = @ + 1])
  ELSE s

\* a start on points[0] in every call, tip or no tip
initTipAlways(s) ==
  LET p == pointAt(s.curL, 0)
  IN [s EXCEPT !.tip = <<p>>, !.ink = @ \cup {p}, !.tail = pushTail(@, p),
               !.curIdx = 0, !.curT = 0,
               !.reads = Append(@, <<s.curL, 0>>)]

\* if(!tip): start on points[0]
initTip(s) ==
  IF s.tip = <<>>
  THEN LET p == pointAt(s.curL, 0)
       IN [s EXCEPT !.tip = <<p>>, !.ink = @ \cup {p}, !.tail = pushTail(@, p),
                    !.curIdx = 0, !.curT = 0,
                    !.reads = Append(@, <<s.curL, 0>>)]
  ELSE s

\* a loop that keeps the tail when it finishes a letter
RECURSIVE moveAlongKeepTail(_, _)
moveAlongKeepTail(s, remaining) ==
  IF ~(remaining > 0 /\ s.curL < Len(letters)) THEN s
  ELSE IF s.curIdx >= Len(letters[s.curL + 1].points) - 1
       THEN LET next == skipEmpties([s EXCEPT !.curL = @ + 1, !.curIdx = 0, !.curT = 0,
                                              !.tip = <<>>])
            IN IF next.curL >= Len(letters) THEN next ELSE moveAlongKeepTail(next, remaining)
       ELSE LET step == Min(Q - s.curT, remaining)
                t == s.curT + step
                a == pointAt(s.curL, s.curIdx)
                b == pointAt(s.curL, s.curIdx + 1)
                p == Pt(lerp(a.x, b.x, t), lerp(a.y, b.y, t))
            IN moveAlongKeepTail([s EXCEPT !.curT = IF t >= Q THEN 0 ELSE t,
                                           !.curIdx = IF t >= Q THEN @ + 1 ELSE @,
                                           !.tip = <<p>>,
                                           !.ink = @ \cup {p},
                                           !.tail = pushTail(@, p),
                                           !.reads = @ \o <<<<s.curL, s.curIdx>>, <<s.curL, s.curIdx + 1>>>>],
                                 remaining - step)

\* the while(remaining > 0 && curL < letters.length) loop; remaining in 1/Q point
RECURSIVE moveAlong(_, _)
moveAlong(s, remaining) ==
  IF ~(remaining > 0 /\ s.curL < Len(letters)) THEN s
  ELSE IF s.curIdx >= Len(letters[s.curL + 1].points) - 1
       THEN LET next == skipEmpties([s EXCEPT !.curL = @ + 1, !.curIdx = 0, !.curT = 0,
                                              !.tip = <<>>, !.tail = <<>>])
            IN IF next.curL >= Len(letters) THEN next ELSE moveAlong(next, remaining)
       ELSE LET step == Min(Q - s.curT, remaining)
                t == s.curT + step
                a == pointAt(s.curL, s.curIdx)
                b == pointAt(s.curL, s.curIdx + 1)
                p == Pt(lerp(a.x, b.x, t), lerp(a.y, b.y, t))
            IN moveAlong([s EXCEPT !.curT = IF t >= Q THEN 0 ELSE t,
                                   !.curIdx = IF t >= Q THEN @ + 1 ELSE @,
                                   !.tip = <<p>>,
                                   !.ink = @ \cup {p},
                                   !.tail = pushTail(@, p),
                                   !.reads = @ \o <<<<s.curL, s.curIdx>>, <<s.curL, s.curIdx + 1>>>>],
                         remaining - step)

\* a traversal that starts over once the letters are exhausted
advanceTipRestart(s, dt) ==
  LET found == skipReset(s)
  IN IF found.curL >= Len(letters)
     THEN [found EXCEPT !.curL = 0, !.curIdx = 0, !.curT = 0, !.tip = <<>>, !.tail = <<>>]
     ELSE moveAlong(initTip(found), dt)

\* advanceTip(dt), dt in ticks: remaining = pointsPerSecond*dt is dt units of 1/Q point
advanceTip(s, dt) ==
  LET found == skipReset(s)
  IN IF found.curL >= Len(letters) THEN found
     ELSE moveAlong(initTip(found), dt)

\* the traversal state as a record, with the call's read log emptied
beam == [curL |-> curL, curIdx |-> curIdx, curT |-> curT, tip |-> tip, tail |-> tail,
         ink |-> glow.ink, reads |-> <<>>]

(***************************************************************************)
(* Environment of src/app.js: viewports, frame timings.                    *)
(***************************************************************************)
\* <<innerWidth, innerHeight, devicePixelRatio in halves (0: unset)>>
Viewports == {<<0, 0, 0>>, <<3, 2, 3>>}

ticksPerSecond == pointsPerSecond * Q
\* Math.min(0.05, ...) in ticks
dtMax == ticksPerSecond \div dtClampDiv
\* t - last of a frame, in ticks: a timestamp before last, no time, the
\* smallest advance, and more than the clamp lets through
Deltas == {0 - 1, 0, 1, dtMax + 1}

blank == [bg |-> FALSE, text |-> FALSE, ink |-> 0, beam |-> <<>>]

(***************************************************************************)
(* Operations of src/app.js.                                               *)
(***************************************************************************)
\* resize(), with the buildLetters() it ends in; it leaves the frame state alone
rebuilt(vp, glyphs) ==
  /\ dpr' = Max(2, Min(4, IF vp[3] = 0 THEN 2 ELSE vp[3]))
  /\ w' = vp[1]
  /\ h' = vp[2]
  /\ canvas' = [width |-> Max(1, (vp[1] * dpr') \div 2), height |-> Max(1, (vp[2] * dpr') \div 2)]
  /\ glow' = [width |-> Max(1, (vp[1] * dpr') \div 2), height |-> Max(1, (vp[2] * dpr') \div 2),
              ink |-> {}]
  /\ letters' = buildLetters(glyphs)
  /\ curL' = 0 /\ curIdx' = 0 /\ curT' = 0
  /\ tip' = <<>>
  /\ tail' = <<>>

\* the resize listener; assigning canvas.width clears the visible canvas
resize ==
  \E vp \in Viewports, glyphs \in rastersOf(text) :
    /\ page = "app.js"
    /\ rebuilt(vp, glyphs)
    /\ shown' = blank
    /\ UNCHANGED <<text, reads, reduced, raf, statics>>
    /\ UNCHANGED <<page, varsV1, varsOrder>>

\* renderTail(): the segments drawn, none below two entries
renderTail(tl) == IF Len(tl) < 2 THEN <<>> ELSE tl

\* frame(t): drawBackground, drawImage(glow), advanceTip(dt), renderTail,
\* requestAnimationFrame(frame)
frame ==
  \E delta \in Deltas :
    /\ page = "app.js"
    /\ raf
    /\ LET dt == Min(dtMax, delta)
           composited == Cardinality(glow.ink)
           after == advanceTip(beam, dt)
       IN /\ curL' = after.curL /\ curIdx' = after.curIdx /\ curT' = after.curT
          /\ tip' = after.tip
          /\ tail' = after.tail
          /\ glow' = [glow EXCEPT !.ink = after.ink]
          /\ reads' = after.reads
          /\ shown' = [bg |-> TRUE, text |-> FALSE, ink |-> composited,
                       beam |-> renderTail(after.tail)]
    /\ raf' = TRUE
    /\ UNCHANGED <<text, w, h, dpr, canvas, letters, reduced, statics>>
    /\ UNCHANGED <<page, varsV1, varsOrder>>


(***************************************************************************)
(* src/unnamed/part_000.  Coordinates are in tenths of a pixel, times in   *)
(* ticks of 1/(2 * revealRate) s, the device pixel ratio in halves.        *)
(* Particles and the position of the sweep line take no part in what the   *)
(* script reveals and are left out.                                        *)
(***************************************************************************)
sampleStep == 4
revealRate == 900
dtCapMs == 33
dwellSeconds == 14
batch == 2500
\* small ages of a completed text that are followed tick by tick
MaxSmallAge == 3

ticksPerSecond1 == 2 * revealRate
dwellTicks == dwellSeconds * ticksPerSecond1
halfDwell == dwellTicks \div 2

\* Math.floor(y / step) for y in tenths of a pixel (\div rounds down)
rowOf(p) == p.y \div (10 * sampleStep)

\* the comparator of pts.sort: negative, zero or positive
scanCompare(p, q) ==
  LET by == rowOf(p) - rowOf(q)
  IN IF by # 0 THEN by
     ELSE IF rowOf(p) % 2 = 0 THEN p.x - q.x ELSE q.x - p.x

\* one insertion of a stable sort: p goes behind every entry not above it
RECURSIVE insertScan(_, _)
insertScan(sorted, p) ==
  IF sorted = <<>> THEN <<p>>
  ELSE IF scanCompare(sorted[Len(sorted)], p) <= 0 THEN Append(sorted, p)
  ELSE Append(insertScan(SubSeq(sorted, 1, Len(sorted) - 1), p), sorted[Len(sorted)])

\* pts.sort(comparator)
RECURSIVE sortScan(_)
sortScan(pts) ==
  IF pts = <<>> THEN <<>>
  ELSE insertScan(sortScan(SubSeq(pts, 1, Len(pts) - 1)), pts[Len(pts)])

\* the sampling loops over a raster: rows outside, columns inside, every
\* lit pixel displaced by its jitter; a raster maps lit pixels <<col, row>>
\* of the stride grid to their jitter <<jx, jy>> in tenths
RECURSIVE sampleRows(_, _, _)
sampleRows(raster, col, row) ==
  IF row > 1 THEN <<>>
  ELSE IF col > 1 THEN sampleRows(raster, 0, row + 1)
  ELSE IF <<col, row>> \in DOMAIN raster
       THEN <<Pt(10 * sampleStep * col + raster[<<col, row>>][1],
                 10 * sampleStep * row + raster[<<col, row>>][2])>>
            \o sampleRows(raster, col + 1, row)
       ELSE sampleRows(raster, col + 1, row)

\* rasters of a 2 x 2 stride grid: every mask without jitter
Rasters1 == {[c \in mask |-> <<0, 0>>] : mask \in SUBSET ({0, 1} \X {0, 1})}

blank1 == [bg |-> FALSE, text |-> FALSE, ink |-> 0, hotspot |-> 0 - 1, shimmer |-> FALSE]

\* the script's state as a record
script1 ==
  [defined |-> defined1, listeners |-> listeners1, error |-> <<>>, motion |-> motion1,
   w |-> w1, h |-> h1, dpr |-> dpr1, canvas |-> canvas1, glow |-> glow1,
   textPoints |-> textPoints, revealCount |-> revealCount, textBounds |-> textBounds,
   completedAgo |-> completedAgo, shown |-> shown1, raf |-> raf1, statics |-> statics1]

\* the variables take the record's fields
becomes1(m) ==
  /\ defined1' = m.defined /\ listeners1' = m.listeners /\ error1' = m.error
  /\ motion1' = m.motion
  /\ w1' = m.w /\ h1' = m.h /\ dpr1' = m.dpr /\ canvas1' = m.canvas /\ glow1' = m.glow
  /\ textPoints' = m.textPoints /\ revealCount' = m.revealCount
  /\ textBounds' = m.textBounds /\ completedAgo' = m.completedAgo
  /\ shown1' = m.shown /\ raf1' = m.raf /\ statics1' = m.statics

\* the variables hold the record's fields
holds1(m) ==
  /\ defined1 = m.defined /\ listeners1 = m.listeners /\ error1 = m.error
  /\ motion1 = m.motion
  /\ w1 = m.w /\ h1 = m.h /\ dpr1 = m.dpr /\ canvas1 = m.canvas /\ glow1 = m.glow
  /\ textPoints = m.textPoints /\ revealCount = m.revealCount
  /\ textBounds = m.textBounds /\ completedAgo = m.completedAgo
  /\ shown1 = m.shown /\ raf1 = m.raf /\ statics1 = m.statics

\* buildTextPoints(): it touches off first, which is in its temporal dead
\* zone until the const declaration of line 72 has run
buildTextPoints(m, raster) ==
  IF "off" \notin m.defined THEN [m EXCEPT !.error = Append(@, "ReferenceError")]
  ELSE [m EXCEPT !.textPoints = sortScan(sampleRows(raster, 0, 0)),
                 !.revealCount = 0,
                 !.textBounds = "object"]

\* resize() of part_000; assigning canvas.width clears the visible canvas
resize1(m, vp, raster) ==
  LET d == Max(2, Min(4, IF vp[3] = 0 THEN 2 ELSE vp[3]))
  IN buildTextPoints([m EXCEPT !.dpr = d, !.w = vp[1], !.h = vp[2],
                               !.canvas = [width |-> (vp[1] * d) \div 2,
                                           height |-> (vp[2] * d) \div 2],
                               !.shown = blank1],
                     raster)

\* resizeGlow()
resizeGlow(m) ==
  IF "glow" \notin m.defined THEN [m EXCEPT !.error = Append(@, "ReferenceError")]
  ELSE [m EXCEPT !.glow = [width |-> (m.w * m.dpr) \div 2, height |-> (m.h * m.dpr) \div 2,
                           ink |-> {}]]

\* the page before the script runs; pref is the reduced-motion preference
fresh1(pref) ==
  [defined |-> {}, listeners |-> <<>>, error |-> <<>>, motion |-> pref,
   w |-> 0, h |-> 0, dpr |-> 2, canvas |-> [width |-> 300, height |-> 150],
   glow |-> [width |-> 0, height |-> 0, ink |-> {}],
   textPoints |-> <<>>, revealCount |-> 0, textBounds |-> "null",
   completedAgo |-> 0 - 1, shown |-> blank1, raf |-> FALSE, statics |-> 0]

\* one top-level statement of the script, named by its first line
exec(stmt, m, vp, raster) ==
  CASE stmt = "L28" ->  \* canvas, ctx, w, h, dpr, function resize, its listener
         [m EXCEPT !.defined = @ \cup {"canvas", "ctx", "w", "h", "dpr"},
                   !.listeners = Append(@, "resize")]
    [] stmt = "L48" -> resize1(m, vp, raster)
    [] stmt = "L68" ->
         [m EXCEPT !.defined = @ \cup {"textPoints", "revealCount", "textBounds"},
                   !.textPoints = <<>>, !.revealCount = 0, !.textBounds = "null"]
    [] stmt = "L72" -> [m EXCEPT !.defined = @ \cup {"off", "offCtx"}]
    [] stmt = "L163" -> buildTextPoints(m, raster)
    [] stmt = "L166" -> [m EXCEPT !.defined = @ \cup {"glow", "gctx"}]
    [] stmt = "L174" -> resizeGlow(m)
    [] stmt = "L176" -> [m EXCEPT !.listeners = Append(@, "resizeGlow")]
    [] stmt = "L188" ->
         [m EXCEPT !.defined = @ \cup {"last", "completedAt"}, !.completedAgo = 0 - 1]
    [] stmt = "L350" ->  \* the loop, or the static frame of reduced motion
         IF ~m.motion THEN [m EXCEPT !.raf = TRUE]
         ELSE [m EXCEPT !.statics = @ + 1,
                        !.shown = [blank1 EXCEPT !.bg = TRUE, !.text = TRUE]]

\* the script's statements in source order
Script1 == <<"L28", "L48", "L68", "L72", "L163", "L166", "L174", "L176", "L188", "L350">>

\* the same statements with the call of line 48 behind the declarations of
\* lines 68-73 it depends on; the frame handler is studied from the state
\* these build
Hoisted1 == <<"L28", "L68", "L72", "L48", "L163", "L166", "L174", "L176", "L188", "L350">>

\* evaluation of a script from statement k: an exception ends it
RECURSIVE runScript(_, _, _, _, _)
runScript(m, stmts, k, vp, raster) ==
  IF k > Len(stmts) \/ m.error # <<>> THEN m
  ELSE runScript(exec(stmts[k], m, vp, raster), stmts, k + 1, vp, raster)

\* a resize event: every registered listener runs, in registration order,
\* whether or not an earlier one threw
RECURSIVE dispatch(_, _, _, _)
dispatch(m, ls, vp, raster) ==
  IF ls = <<>> THEN m
  ELSE dispatch(IF Head(ls) = "resize" THEN resize1(m, vp, raster) ELSE resizeGlow(m),
                Tail(ls), vp, raster)

\* progress >= 1, with progress = revealCount / (textPoints.length || 1)
complete(points, count) == count >= (IF Len(points) = 0 THEN 1 ELSE Len(points))

\* a step that composites the glow buffer before it reveals and stamps
steppedEarly(m, delta) ==
  LET add == Min((revealRate * dtCapMs) \div 1000, (revealRate * delta) \div ticksPerSecond1)
      count == IF Len(m.textPoints) > 0
               THEN Min(Len(m.textPoints), m.revealCount + add)
               ELSE m.revealCount
      ink == m.glow.ink \cup {m.textPoints[i + 1] : i \in Max(0, count - batch) .. count - 1}
      done == m.textBounds = "object" /\ complete(m.textPoints, count)
      since == IF m.completedAgo = 0 - 1 THEN 0 ELSE m.completedAgo + delta
      restart == done /\ since > dwellTicks
  IN [m EXCEPT !.revealCount = IF restart THEN 0 ELSE count,
               !.glow = [@ EXCEPT !.ink = IF restart THEN {} ELSE ink],
               !.completedAgo = IF done /\ ~restart THEN since ELSE 0 - 1,
               !.shown = [bg |-> TRUE, text |-> FALSE, ink |-> Cardinality(m.glow.ink),
                          hotspot |-> Min(Len(m.textPoints) - 1, count),
                          shimmer |-> done],
               !.raf = TRUE]

\* step(now) with now - last = delta ticks, up to requestAnimationFrame
stepped(m, delta) ==
  LET add == Min((revealRate * dtCapMs) \div 1000, (revealRate * delta) \div ticksPerSecond1)
      count == IF Len(m.textPoints) > 0
               THEN Min(Len(m.textPoints), m.revealCount + add)
               ELSE m.revealCount
      ink == m.glow.ink \cup {m.textPoints[i + 1] : i \in Max(0, count - batch) .. count - 1}
      done == m.textBounds = "object" /\ complete(m.textPoints, count)
      since == IF m.completedAgo = 0 - 1 THEN 0 ELSE m.completedAgo + delta
      restart == done /\ since > dwellTicks
  IN [m EXCEPT !.revealCount = IF restart THEN 0 ELSE count,
               !.glow = [@ EXCEPT !.ink = IF restart THEN {} ELSE ink],
               !.completedAgo =
                  IF m.textBounds = "null"
                  THEN (IF m.completedAgo = 0 - 1 THEN 0 - 1 ELSE m.completedAgo + delta)
                  ELSE IF done /\ ~restart THEN since ELSE 0 - 1,
               !.shown = [bg |-> TRUE, text |-> FALSE, ink |-> Cardinality(ink),
                          hotspot |-> IF m.textBounds = "object"
                                      THEN Min(Len(m.textPoints) - 1, count) ELSE 0 - 1,
                          shimmer |-> done],
               !.raf = TRUE]

\* frame timings of part_000 in ticks: no time, less than a point's worth,
\* one point's worth, half the dwell, more than the dwell
Deltas1 == {0, 1, 3, halfDwell, dwellTicks + 1}

\* <<innerWidth, innerHeight, devicePixelRatio in halves (0: unset)>>
Viewports1 == {<<5, 5, 2>>, <<8, 6, 3>>}
WideViewports1 == (0 .. 6) \X (0 .. 3) \X {0, 1, 3, 4, 5}

\* a resize event of part_000 with a viewport of vps
onResize1(vps) ==
  \E vp \in vps, raster \in Rasters1 :
    /\ page = "part_000"
    /\ listeners1 # <<>>
    /\ LET m == dispatch(script1, listeners1, vp, raster)
       IN /\ becomes1(m)
          /\ observedAgo' = IF Len(m.textPoints) > 0 /\ m.revealCount = Len(m.textPoints)
                            THEN observedAgo ELSE 0 - 1
    /\ event1' = "resize"
    /\ delta1' = delta1
    /\ UNCHANGED <<page, varsV2, varsOrder>>

\* the resize event as the page meets it
resizeEvent1 == onResize1(WideViewports1)

\* the resize event over the few viewports of the frame study
resizeFew1 == onResize1(Viewports1)

\* a completed text's age is followed for MaxSmallAge ticks past 0 and past
\* half the dwell
keptAge(age) == age = 0 - 1 \/ age % halfDwell <= MaxSmallAge

\* the animation frame callback of part_000
step ==
  \E delta \in Deltas1 :
    /\ page = "part_000"
    /\ raf1
    /\ LET m == stepped(script1, delta)
           was == Len(textPoints) > 0 /\ revealCount = Len(textPoints)
       IN /\ keptAge(m.completedAgo)
          /\ becomes1(m)
          /\ observedAgo' = IF m.shown.shimmer
                            THEN (IF was /\ observedAgo # 0 - 1
                                  THEN observedAgo + delta ELSE 0)
                            ELSE 0 - 1
    /\ event1' = "step"
    /\ delta1' = delta
    /\ UNCHANGED <<page, varsV2, varsOrder>>

(***************************************************************************)
(* Inputs of the Path Orderers.                                            *)
(***************************************************************************)
\* every glyph of one box row: any mask, every sample jittered up, not at
\* all, or down by 1/JitterRes pixel
AllGlyphs ==
  UNION {{[mask |-> mask, jit |-> [xx \in mask |-> <<0, j[xx]>>]] :
            j \in [mask -> {0 - 1, 0, 1}]} : mask \in SUBSET (0 .. BoxW - 1)}

\* every raster of the 2 x 2 stride grid: any mask, every sample jittered by
\* -0.6, 0 or 0.5 pixel upwards
AllRasters1 ==
  UNION {[mask -> {<<0, 0 - 6>>, <<0, 0>>, <<0, 5>>}] : mask \in SUBSET ({0, 1} \X {0, 1})}

\* app.js, lines 160-196, on the points sampled for a letter
orderChain ==
  /\ page = "orderers" /\ orderer = "chain" /\ ~applied
  /\ traced' = orderLetter(given)
  /\ applied' = TRUE
  /\ UNCHANGED <<page, varsV2, varsV1, orderer, given>>

\* part_000, lines 150-157, on the points sampled for the text
orderScan ==
  /\ page = "orderers" /\ orderer = "scanline" /\ ~applied
  /\ traced' = sortScan(given)
  /\ applied' = TRUE
  /\ UNCHANGED <<page, varsV2, varsV1, orderer, given>>

(***************************************************************************)
(* Specifications.                                                         *)
(***************************************************************************)
\* the variables of a script the page does not run
idleV2 ==
  /\ text = <<>>
  /\ w = 0 /\ h = 0 /\ dpr = 2
  /\ canvas = [width |-> 300, height |-> 150]
  /\ glow = [width |-> 0, height |-> 0, ink |-> {}]
  /\ letters = <<>>
  /\ curL = 0 /\ curIdx = 0 /\ curT = 0
  /\ tip = <<>> /\ tail = <<>> /\ reads = <<>>
  /\ shown = blank /\ reduced = FALSE /\ raf = FALSE /\ statics = 0

idleV1 ==
  /\ holds1(fresh1(FALSE))
  /\ event1 = "none"
  /\ observedAgo = 0 - 1
  /\ delta1 = 0

idleOrder == orderer = "none" /\ given = <<>> /\ traced = <<>> /\ applied = FALSE

\* the script's top level: resize(), then the loop or the static frame
Init ==
  \E txt \in Texts, vp \in Viewports, r \in BOOLEAN :
   \E glyphs \in rastersOf(txt) :
    /\ page = "app.js"
    /\ text = txt
    /\ idleV1
    /\ idleOrder
    /\ dpr = Max(2, Min(4, IF vp[3] = 0 THEN 2 ELSE vp[3]))
    /\ w = vp[1]
    /\ h = vp[2]
    /\ canvas = [width |-> Max(1, (vp[1] * dpr) \div 2), height |-> Max(1, (vp[2] * dpr) \div 2)]
    /\ glow = [width |-> Max(1, (vp[1] * dpr) \div 2), height |-> Max(1, (vp[2] * dpr) \div 2),
               ink |-> {}]
    /\ letters = buildLetters(glyphs)
    /\ curL = 0 /\ curIdx = 0 /\ curT = 0
    /\ tip = <<>>
    /\ tail = <<>>
    /\ reads = <<>>
    /\ reduced = r
    /\ raf = ~r
    /\ statics = IF r THEN 1 ELSE 0
    /\ shown = IF r THEN [bg |-> TRUE, text |-> TRUE, ink |-> 0, beam |-> <<>>] ELSE blank

Next == resize \/ frame

Spec == Init /\ [][Next]_vars


(***************************************************************************)
(* part_000 as the page runs it: the evaluation of the script, then the    *)
(* resize events its registered listeners receive.  The only request for a *)
(* step callback is line 351; the evaluation ends at line 48 with the      *)
(* ReferenceError of line 96 and leaves raf1 FALSE, so no step follows.    *)
(***************************************************************************)
InitV1 ==
  \E vp \in WideViewports1, raster \in Rasters1, pref \in BOOLEAN :
    /\ page = "part_000"
    /\ idleV2
    /\ idleOrder
    /\ holds1(runScript(fresh1(pref), Script1, 1, vp, raster))
    /\ event1 = "load"
    /\ observedAgo = 0 - 1
    /\ delta1 = 0

NextV1 == resizeEvent1

SpecV1 == InitV1 /\ [][NextV1]_vars

(***************************************************************************)
(* The frame handlers of both scripts, part_000 from the state its         *)
(* statements build when the call of line 48 follows the declarations.     *)
(***************************************************************************)
InitV1Frames ==
  \E vp \in Viewports1, raster \in Rasters1, pref \in BOOLEAN :
    /\ page = "part_000"
    /\ idleV2
    /\ idleOrder
    /\ holds1(runScript(fresh1(pref), Hoisted1, 1, vp, raster))
    /\ event1 = "load"
    /\ observedAgo = 0 - 1
    /\ delta1 = 0

InitFrames == Init \/ InitV1Frames

NextFrames == resize \/ frame \/ resizeFew1 \/ step

SpecFrames == InitFrames /\ [][NextFrames]_vars

(***************************************************************************)
(* The Path Orderers applied to sampled point lists.                       *)
(***************************************************************************)
InitOrder ==
  /\ page = "orderers"
  /\ idleV2
  /\ idleV1
  /\ orderer \in {"chain", "scanline"}
  /\ given \in IF orderer = "chain"
               THEN {sample(0, g, 0) : g \in AllGlyphs}
               ELSE {sampleRows(r, 0, 0) : r \in AllRasters1}
  /\ traced = <<>>
  /\ applied = FALSE

NextOrder == orderChain \/ orderScan

SpecOrder == InitOrder /\ [][NextOrder]_vars

(***************************************************************************)
(* Claims about src/app.js.                                                *)
(***************************************************************************)
\* the last operation was a frame: it drew the background over whatever the
\* canvas held, and no resize has cleared the canvas since.  A step into such
\* a state is a frame() call.
framed == shown.bg /\ ~shown.text

\* <<l1,i1,t1>> <= <<l2,i2,t2>> in lexicographic order
posLE(l1, i1, t1, l2, i2, t2) ==
  \/ l1 < l2
  \/ l1 = l2 /\ i1 < i2
  \/ l1 = l2 /\ i1 = i2 /\ t1 <= t2

\* the letter indices of a read log never decrease
lettersAscend(log) == \A i \in 1 .. Len(log) - 1 : log[i][1] <= log[i + 1][1]

\* C1: over the advanceTip calls between two resizes the position
\* (curL, curIdx, curT) never moves backwards in lexicographic order, and a
\* call reads no point of a letter that curL has already passed: its reads
\* start at or after the letter curL was on and never step back to an
\* earlier letter.
C1_NeverBackwards ==
  [][framed' => /\ posLE(curL, curIdx, curT, curL', curIdx', curT')
              /\ \A i \in 1 .. Len(reads') : reads'[i][1] >= curL
              /\ lettersAscend(reads')]_vars

\* a call has read points of the second letter after the first, drawable
\* letter was passed
C1_Witness ==
  /\ Len(letters) = 2 /\ Len(letters[1].points) >= 2
  /\ curL = 1 /\ reads # <<>> /\ reads[Len(reads)][1] = 1

\* the state advanceTip must leave
tipInRange ==
  /\ 0 <= curT /\ curT < Q
  /\ 0 <= curL /\ curL <= Len(letters)
  /\ curL < Len(letters) => /\ Len(letters[curL + 1].points) >= 2
                            /\ curIdx <= Len(letters[curL + 1].points) - 1
  /\ \A i \in 1 .. Len(reads) :
       /\ reads[i][1] < Len(letters)
       /\ reads[i][2] >= 0
       /\ reads[i][2] < Len(letters[reads[i][1] + 1].points)

\* C2: after every advanceTip call, whatever dt and letters, curT is in
\* [0,1), curL is in 0..letters.length, the current letter (if any) has at
\* least 2 points with curIdx <= length-1, and every points[] read of the
\* call was inside its array.
C2_InRange == framed => tipInRange

\* a call that stopped inside a segment, after a build whose first letter
\* had fewer than 2 points
C2_Witness ==
  /\ Len(letters) = 2 /\ Len(letters[1].points) = 1
  /\ curL = 1 /\ curT > 0 /\ reads # <<>>

\* every two consecutive tail entries are at least tailStepMin apart
tailSpaced == \A i \in 1 .. Len(tail) - 1 : farEnough(tail[i], tail[i + 1])

\* an entry of tl that is still in tl2 is followed in tl only by entries
\* that are still in tl2: the entries dropped are the oldest
oldestFirst(tl, tl2) ==
  \A i \in 1 .. Len(tl) : \A j \in i .. Len(tl) :
     (\E k \in 1 .. Len(tl2) : tl2[k] = tl[i]) => (\E k \in 1 .. Len(tl2) : tl2[k] = tl[j])

\* C3: the tail holds at most tailLength entries, consecutive entries are
\* at least tailStepMin apart, and a frame drops entries oldest first.
C3_TailBounded ==
  [][/\ Len(tail') <= tailLength
     /\ tailSpaced'
     /\ framed' => oldestFirst(tail, tail')]_vars

\* the tail is full, and the frame that filled it evicted its oldest entry
\* (the letter's first point)
C3_Witness ==
  /\ Len(tail) = tailLength
  /\ curL < Len(letters)
  /\ \A i \in 1 .. Len(tail) : tail[i] # letters[curL + 1].points[1]

\* C9: once all letters are exhausted, an advanceTip call of any dt changes
\* none of curL, curIdx, curT, tip, tail and the ink buffer.
C9_ExhaustedNoOp ==
  [][(framed' /\ curL = Len(letters)) => UNCHANGED <<curL, curIdx, curT, tip, tail, glow>>]_vars

\* a frame has run on an exhausted traversal that had written ink
C9_Witness ==
  /\ curL = Len(letters) /\ glow.ink # {}
  /\ shown.bg /\ shown.ink = Cardinality(glow.ink) /\ reads = <<>>

(***************************************************************************)
(* Claims about the Path Orderers.                                         *)
(***************************************************************************)
\* how often p occurs in seq
count(seq, p) == Cardinality({i \in 1 .. Len(seq) : seq[i] = p})

\* C4: the output of a Path Orderer (the nearest-neighbour chain of app.js
\* with its bypass for lists of 0, 1 or 2 points, the scanline sort of
\* part_000) is a permutation of its input: it has the input's length, holds
\* every input point exactly as often as the input does, which is once, and
\* holds nothing else.
C4_Permutation ==
  applied =>
    /\ Len(traced) = Len(given)
    /\ \A i \in 1 .. Len(given) :
         count(traced, given[i]) = 1 /\ count(given, given[i]) = 1
    /\ \A i \in 1 .. Len(traced) : count(given, traced[i]) = 1

\* the chain has run on more than two points and has changed their order
C4_Witness ==
  /\ applied /\ orderer = "chain"
  /\ Len(given) > 2 /\ traced # given

C7_Original ==
  /\ (page = "app.js" /\ shown = blank) =>
        /\ glow.width = canvas.width /\ glow.height = canvas.height /\ glow.ink = {}
        /\ curL = 0 /\ curIdx = 0 /\ curT = 0 /\ tip = <<>> /\ tail = <<>>
  /\ (page = "part_000" /\ event1 = "resize") =>
        /\ error1 = <<>>
        /\ "textPoints" \in defined1 /\ textBounds = "object"
        /\ "glow" \in defined1
        /\ glow1.width = canvas1.width /\ glow1.height = canvas1.height /\ glow1.ink = {}
        /\ revealCount = 0

\* C8: with the reduced-motion preference set at startup exactly one static
\* frame is rendered and the frame driver is never run or pending; without
\* it the frame driver is pending after startup and after every frame.
C8_Original ==
  /\ page = "app.js" =>
        IF reduced THEN statics = 1 /\ ~raf /\ ~framed ELSE statics = 0 /\ raf
  /\ page = "part_000" =>
        IF motion1 THEN statics1 = 1 /\ ~raf1 /\ event1 # "step" ELSE statics1 = 0 /\ raf1

\* the points part_000 stamps in a frame that ends in the primed state
stamped1 ==
  {textPoints[i] : i \in 1 .. (IF shown1'.shimmer THEN Len(textPoints) ELSE revealCount')}

C11_Original ==
  (page = "part_000" /\ event1 = "load") =>
     /\ error1 = <<>>
     /\ {"off", "textPoints", "revealCount", "textBounds", "glow", "completedAt"}
          \subseteq defined1
     /\ textBounds = "object"
     /\ listeners1 = <<"resize", "resizeGlow">>
     /\ IF motion1 THEN statics1 = 1 /\ ~raf1 ELSE raf1

C13_Original ==
  \A l \in 1 .. Min(curL, Len(letters)) :
    Len(letters[l].points) >= 2 =>
      \A i \in 1 .. Len(letters[l].points) : letters[l].points[i] \in glow.ink

\* p is a position on the ordered path of letter l (0-based): a point of
\* the path or an interpolation between two consecutive ones
onPath(l, p) ==
  LET pts == letters[l + 1].points
  IN \E i \in 1 .. Len(pts) - 1 : \E k \in 0 .. Q :
       p = Pt(lerp(pts[i].x, pts[i + 1].x, k), lerp(pts[i].y, pts[i + 1].y, k))

\* every entry of the position list tl lies on the path of the current letter
onCurrent(tl) ==
  \A i \in 1 .. Len(tl) : curL < Len(letters) /\ onPath(curL, tl[i])

\* the tip and all tail entries are positions on the current letter's
\* path, the beam a frame rendered joins positions of the current letter
\* only, and with the last letter finished tip and tail are empty
tailOnLetter ==
  /\ onCurrent(tail) /\ onCurrent(tip)
  /\ framed => onCurrent(shown.beam)
  /\ curL = Len(letters) => (tail = <<>> /\ tip = <<>>)

\* C14: tip and tail are emptied whenever curL advances, before a position
\* of the next letter is recorded: before and after every step the tip and
\* all tail entries are positions on the current letter's path, the beam a
\* frame rendered joins positions of the current letter only, a step that
\* changes curL keeps no entry of the old tail, and with the last letter
\* finished tip and tail are empty.
C14_TailOnLetter ==
  [][/\ tailOnLetter /\ tailOnLetter'
     /\ curL' # curL => \A i \in 1 .. Len(tail) : \A j \in 1 .. Len(tail') : tail[i] # tail'[j]]_vars

\* a frame has finished the first of two drawable letters and has recorded
\* positions of the second one in the tail
C14_Witness ==
  /\ framed
  /\ Len(letters) = 2 /\ Len(letters[1].points) >= 2 /\ Len(letters[2].points) >= 2
  /\ curL = 1 /\ Len(tail) >= 2 /\ tip # <<>>

====
